---- MODULE Spec2Model ----
(***************************************************************************)
(* Model of src/agent/agent.py: the get_weather tool (WeatherLookup) and   *)
(* the scripted conversation driver (init_default_runner,                  *)
(* call_agent_async, run_conversation, main).                              *)
(*                                                                         *)
(* Two specifications share the variables:                                 *)
(*   SpecWeather  one get_weather call at a time, the network and the      *)
(*                response body chosen by the environment;                 *)
(*   Spec         the conversation driver, the external runtime's events   *)
(*                and failures chosen by the environment.                  *)
(***************************************************************************)
EXTENDS Integers, Sequences, FiniteSets, TLC

VARIABLES
    \* ---- get_weather ----
    wpc,            \* position inside get_weather
    city,           \* the argument, a sequence of characters
    url,            \* the url built at line 60 ("" before that)
    urlopenCalls,   \* urlopen calls made by the current get_weather call
    response,       \* what urlopen / read / json.loads produced
    data,           \* the parsed body (line 68)
    wresult,        \* the returned mapping
    wraised,        \* the exception that escaped get_weather
    \* ---- conversation driver ----
    loopRunning,    \* TRUE: module imported inside a running event loop
    entry,          \* coroutine the process or the host awaits
    pc,             \* position of the background task and of the entry
    session_service,
    session,
    runner,
    createSessionCalls,
    runnerConstructions,
    exc,            \* exception raised in each task
    sent,           \* queries handed to runner.run_async, in order
    turnRunner,     \* the runner argument of the current turn
    fetches,        \* events requested from the runtime in this turn
    finalsSeen,     \* final events consumed in this turn
    event,          \* the event the loop body last looked at
    exhausted,      \* the event sequence of this turn has ended
    final_response_text,
    printed,        \* last "<<< Agent response" line written
    returned,       \* value call_agent_async last returned to its caller
    completed,      \* turns that have returned
    mainPrinted     \* the "Error occurred in main()" line, if written

wvars == <<wpc, city, url, urlopenCalls, response, data, wresult, wraised>>
dvars == <<loopRunning, entry, pc, session_service, session, runner,
           createSessionCalls, runnerConstructions, exc, sent, turnRunner,
           fetches, finalsSeen, event, exhausted, final_response_text,
           printed, returned, completed, mainPrinted>>
vars == <<wvars, dvars>>

-----------------------------------------------------------------------------
(* Bounds *)

MaxLen == 2         \* longest city text explored
MaxEvents == 3      \* most events the runtime yields in one turn

-----------------------------------------------------------------------------
(* Python values.  Every value is a tagged record; dictionaries carry all  *)
(* the keys the code ever looks up, an Absent entry meaning "no such key". *)

Absent == [t |-> "absent"]
PyNone == [t |-> "null"]
Str(cs) == [t |-> "str", chars |-> cs]
Num(n) == [t |-> "num", n |-> n]
List(xs) == [t |-> "list", items |-> xs]
Keys == {"current_condition", "temp_C", "feelslike_C", "humidity",
         "weatherDesc", "value"}
EmptyDict == [t |-> "dict", fields |-> [k \in Keys |-> Absent]]
With(d, k, v) == [t |-> "dict", fields |-> [d.fields EXCEPT ![k] = v]]
Raise(type, msg) == [t |-> "exc", type |-> type, msg |-> msg]
IsExc(v) == v.t = "exc"

TypeName(v) ==
    CASE v.t = "null" -> "NoneType"
      [] v.t = "str"  -> "str"
      [] v.t = "num"  -> "int"
      [] v.t = "list" -> "list"
      [] v.t = "dict" -> "dict"

\* Variant of PyGet: obj[key], which raises KeyError for a key that is absent.
PyGetStrict(obj, key, default) ==
    IF IsExc(obj) THEN obj
    ELSE IF obj.t = "dict"
         THEN IF obj.fields[key] = Absent
              THEN Raise("KeyError", "'" \o key \o "'")
              ELSE obj.fields[key]
         ELSE Raise("TypeError", "indices must be integers")

\* obj.get(key, default)
PyGet(obj, key, default) ==
    IF IsExc(obj) THEN obj
    ELSE IF obj.t = "dict"
         THEN IF obj.fields[key] = Absent THEN default ELSE obj.fields[key]
         ELSE Raise("AttributeError",
                    "'" \o TypeName(obj) \o "' object has no attribute 'get'")

\* obj[0]
PyIndex0(obj) ==
    IF IsExc(obj) THEN obj
    ELSE CASE obj.t = "list" ->
                IF obj.items = <<>>
                THEN Raise("IndexError", "list index out of range")
                ELSE Head(obj.items)
           [] obj.t = "str" ->
                IF obj.chars = <<>>
                THEN Raise("IndexError", "string index out of range")
                ELSE Str(<<Head(obj.chars)>>)
           [] obj.t = "dict" -> Raise("KeyError", "0")
           [] OTHER ->
                Raise("TypeError",
                      "'" \o TypeName(obj) \o "' object is not subscriptable")

RECURSIVE Join(_)
Join(cs) == IF cs = <<>> THEN "" ELSE Head(cs) \o Join(Tail(cs))

\* str(v) as the f-string of line 81 renders it
PyStr(v) ==
    CASE v.t = "str"  -> Join(v.chars)
      [] v.t = "null" -> "None"
      [] v.t = "num"  -> ToString(v.n)

-----------------------------------------------------------------------------
(* get_weather, lines 45-86 *)

SUR == "\\ud800"                \* a lone surrogate code point
Whitespace == {" ", "\t"}
Chars == {" ", "\t", "a", SUR}

RECURSIVE SeqsUpTo(_)
SeqsUpTo(n) ==
    IF n = 0 THEN {<<>>}
    ELSE LET S == SeqsUpTo(n - 1)
         IN  S \cup {Append(s, c) : s \in {x \in S : Len(x) = n - 1}, c \in Chars}
Cities == SeqsUpTo(MaxLen)

RECURSIVE lstrip(_)
lstrip(cs) ==
    IF cs # <<>> /\ Head(cs) \in Whitespace THEN lstrip(Tail(cs)) ELSE cs
RECURSIVE rstrip(_)
rstrip(cs) ==
    IF cs # <<>> /\ cs[Len(cs)] \in Whitespace
    THEN rstrip(SubSeq(cs, 1, Len(cs) - 1)) ELSE cs
strip(cs) == rstrip(lstrip(cs))

\* Variant of IsBlank: the check without strip().
IsBlankNoStrip(c) == c = <<>>

\* line 55: not city or not city.strip()
IsBlank(c) == c = <<>> \/ strip(c) = <<>>

\* urllib.parse.quote: the text is encoded as UTF-8 (strict), so a lone
\* surrogate raises UnicodeEncodeError; unreserved characters are kept and
\* the others become %XX.
QuoteChar(c) == IF c = " " THEN "%20" ELSE IF c = "\t" THEN "%09" ELSE c
quote(c) ==
    IF \E i \in 1..Len(c) : c[i] = SUR
    THEN Raise("UnicodeEncodeError",
               "'utf-8' codec can't encode character: surrogates not allowed")
    ELSE Str([i \in 1..Len(c) |-> QuoteChar(c[i])])

BlankCityMessage == "City must be non-empty string."
ErrorResult(msg) == [status |-> "error", error_message |-> msg]
FetchError(cause) == ErrorResult("Error fetching weather data: " \o cause \o ".")
ParseError(cause) == ErrorResult("Error parsing weather data: " \o cause \o ".")
Report(c, desc, temp_c, feels_like_c, humidity) ==
    "Weather in " \o Join(c) \o " is " \o PyStr(desc) \o ", temperature "
      \o PyStr(temp_c) \o "\\u00b0c (feels like " \o PyStr(feels_like_c)
      \o "\\u00b0c), humidity " \o PyStr(humidity) \o "%."

NoResult == [status |-> "none"]
NoResponse == [kind |-> "none"]

\* The bodies the environment may serve.
Temps == {Absent, PyNone, Str(<<"2", "5">>)}
Feels == {Absent, Str(<<"2", "7">>)}
Humidities == {Absent, Num(60)}
Descs == {Absent, PyNone, Str(<<"S", "u", "n", "n", "y">>)}
WeatherDescs ==
    {Absent, PyNone, List(<<>>), EmptyDict, Str(<<"x">>),
     List(<<Str(<<"x">>)>>)}
    \cup {List(<<With(EmptyDict, "value", d)>>) : d \in Descs}
Currents ==
    {PyNone, Str(<<"x">>), Num(1)}
    \cup {With(With(With(With(EmptyDict, "temp_C", t), "feelslike_C", f),
                    "humidity", h), "weatherDesc", w) :
            t \in Temps, f \in Feels, h \in Humidities, w \in WeatherDescs}
CurrentConditions ==
    {Absent, PyNone, List(<<>>), EmptyDict, Str(<<>>), Str(<<"x">>)}
    \cup {List(<<c>>) : c \in Currents}
Bodies ==
    {PyNone, List(<<>>), Str(<<"x">>)}
    \cup {With(EmptyDict, "current_condition", cc) : cc \in CurrentConditions}

\* What urlopen and the statements inside the first try block can meet.
Responses ==
    {[kind |-> "raise", stage |-> s[1], cause |-> s[2]] :
        s \in {<<"urlopen", "<urlopen error timed out>">>,
               <<"urlopen", "HTTP Error 404: Not Found">>,
               <<"read", "The read operation timed out">>,
               <<"decode", "'utf-8' codec can't decode byte 0xff">>,
               <<"json", "Expecting value: line 1 column 1 (char 0)">>}}
    \cup {[kind |-> "response", status |-> st, body |-> b] :
            st \in {PyNone, Num(200), Num(204)}, b \in Bodies}

\* lines 62-70
Fetch(r) ==
    IF r.kind = "raise" THEN FetchError(r.cause)
    ELSE IF r.status # PyNone /\ r.status # Num(200)
         THEN FetchError(PyStr(r.status))
         ELSE NoResult

\* lines 73-86
Extract(c, d) ==
    LET current == PyIndex0(PyGet(d, "current_condition", List(<<>>)))
        temp_c == PyGet(current, "temp_C", PyNone)
        desc == PyGet(PyIndex0(PyGet(current, "weatherDesc",
                                     List(<<EmptyDict>>))),
                      "value", PyNone)
        humidity == PyGet(current, "humidity", PyNone)
        feels_like_c == PyGet(current, "feelslike_C", PyNone)
        raised == IF IsExc(temp_c) THEN temp_c
                  ELSE IF IsExc(desc) THEN desc
                  ELSE IF IsExc(humidity) THEN humidity
                  ELSE feels_like_c
    IN  IF IsExc(raised)
        THEN ParseError(raised.msg)
        ELSE [status |-> "success",
              report |-> Report(c, desc, temp_c, feels_like_c, humidity),
              data |-> d]

\* lines 55-60: the call, the blank check and the url
GetWeatherCall ==
    /\ wpc = "idle"
    /\ \E c \in Cities :
        /\ city' = c
        /\ urlopenCalls' = 0
        /\ response' = NoResponse
        /\ data' = Absent
        /\ IF IsBlank(c)
           THEN /\ wresult' = ErrorResult(BlankCityMessage)
                /\ wraised' = PyNone
                /\ url' = ""
                /\ wpc' = "returned"
           ELSE LET encoded_city == quote(c)
                IN  IF IsExc(encoded_city)
                    THEN /\ wraised' = encoded_city
                         /\ wresult' = NoResult
                         /\ url' = ""
                         /\ wpc' = "raised"
                    ELSE /\ wresult' = NoResult
                         /\ wraised' = PyNone
                         /\ url' = "https://wttr.in/" \o Join(encoded_city.chars)
                                      \o "?format=j1"
                         /\ wpc' = "fetch"
    /\ UNCHANGED dvars

\* lines 62-70: the first try block
Urlopen ==
    /\ wpc = "fetch"
    /\ \E r \in Responses :
        /\ response' = r
        /\ urlopenCalls' = urlopenCalls + 1
        /\ IF Fetch(r) # NoResult
           THEN /\ wresult' = Fetch(r)
                /\ data' = data
                /\ wpc' = "returned"
           ELSE /\ wresult' = wresult
                /\ data' = r.body
                /\ wpc' = "parse"
    /\ UNCHANGED <<city, url, wraised>>
    /\ UNCHANGED dvars

\* lines 73-86: the second try block
ParseFields ==
    /\ wpc = "parse"
    /\ wresult' = Extract(city, data)
    /\ wpc' = "returned"
    /\ UNCHANGED <<city, url, urlopenCalls, response, data, wraised>>
    /\ UNCHANGED dvars

\* the caller takes the outcome; the tool can be called again
GetWeatherDone ==
    /\ wpc \in {"returned", "raised"}
    /\ wpc' = "idle"
    /\ UNCHANGED <<city, url, urlopenCalls, response, data, wresult, wraised>>
    /\ UNCHANGED dvars

-----------------------------------------------------------------------------
(* The conversation driver, lines 104-124 and 142-290 *)

SESSION_ID == "session_001"
Queries == <<"What is the weather in Nairobi?",
             "What is the weather in New York?",
             "What is the weather in London?">>

Text(s) == IF s = "" THEN Str(<<>>) ELSE Str(<<s>>)
Bool(b) == [t |-> "bool", b |-> b]
Part(text) == [t |-> "Part", text |-> text]
Content(parts) == [t |-> "Content", parts |-> parts]
EventActions(escalate) == [t |-> "EventActions", escalate |-> escalate]

\* Python truth value
Truthy(v) ==
    CASE v.t = "null"  -> FALSE
      [] v.t = "bool"  -> v.b
      [] v.t = "str"   -> v.chars # <<>>
      [] v.t = "list"  -> v.items # <<>>
      [] v.t = "num"   -> v.n # 0
      [] OTHER         -> TRUE

\* a or b
PyOr(a, b) == IF Truthy(a) THEN a ELSE b

\* The events the external runtime may yield.
Contents ==
    {PyNone, Content(PyNone), Content(List(<<>>)),
     Content(List(<<Part(Text("Sunny, 25 C"))>>)),
     Content(List(<<Part(Text("Cloudy")), Part(Text("Windy"))>>))}
Actions == {PyNone, EventActions(Bool(FALSE)), EventActions(Bool(TRUE))}
ErrorMessages == {PyNone, Text(""), Text("quota exceeded")}
Events ==
    [final : BOOLEAN, content : Contents, actions : Actions,
     error_message : ErrorMessages]
NoEvent == [final |-> FALSE, content |-> PyNone, actions |-> PyNone,
            error_message |-> PyNone]

\* Failures of the external framework.
SessionErrors == {Raise("AlreadyExistsError", "Session with id session_001 already exists.")}
RunnerErrors == {Raise("ValueError", "Invalid app name")}
RuntimeErrors == {Raise("RateLimitError", "quota exhausted")}

\* line 111
InitialResponseText == Text("Agent did not produce a final response.")

\* Variant of Resolve: the escalation branch tested before the content.
ResolveEscalationFirst(e, text) ==
    IF Truthy(e.actions) /\ Truthy(e.actions.escalate)
    THEN Text("Agent escalated: "
              \o PyStr(PyOr(e.error_message, Text("No specific message."))))
    ELSE IF Truthy(e.content) /\ Truthy(e.content.parts)
         THEN Head(e.content.parts.items).text
         ELSE text

\* lines 118-121: the text the final event resolves to
Resolve(e, text) ==
    IF Truthy(e.content) /\ Truthy(e.content.parts)
    THEN Head(e.content.parts.items).text
    ELSE IF Truthy(e.actions) /\ Truthy(e.actions.escalate)
         THEN Text("Agent escalated: "
                   \o PyStr(PyOr(e.error_message, Text("No specific message."))))
         ELSE text

\* Variant of LoopBody: the break of line 122 left out.
LoopBodyNoBreak(e, text) ==
    [text |-> IF e.final THEN Resolve(e, text) ELSE text, break |-> FALSE]

\* Variant of LoopBody: the text taken from every event, final or not.
LoopBodyEveryEvent(e, text) ==
    [text |-> Resolve(e, text), break |-> e.final]

\* lines 117-122: the loop body; break leaves the scan
LoopBody(e, text) ==
    IF e.final
    THEN [text |-> Resolve(e, text), break |-> TRUE]
    ELSE [text |-> text, break |-> FALSE]

\* Variant of ResponseLine: the text left out of the line.
ResponseLineNoText(text) == "<<< Agent response: "

\* line 124, and the value the coroutine hands back (there is no return)
ResponseLine(text) == "<<< Agent response: " \o PyStr(text)
CallAgentReturn(text) == PyNone

\* Variant of MainExcept: the exception swallowed after printing.
MainExceptSwallow(e) ==
    [pc |-> "main_done", line |-> "Error occurred in main(): " \o e.msg]

\* lines 287-290: print, then raise
MainExcept(e) ==
    [pc |-> "main_reraised", line |-> "Error occurred in main(): " \o e.msg]

NotReturned == [t |-> "pending"]

\* An exception leaves the task p: the background task keeps it; under main()
\* it reaches the except clause; a bare run_conversation() hands it to the host.
Propagate(p, e) ==
    /\ exc' = [exc EXCEPT ![p] = e]
    /\ IF p = "entry" /\ entry = "main"
       THEN /\ pc' = [pc EXCEPT ![p] = MainExcept(e).pc]
            /\ mainPrinted' = MainExcept(e).line
       ELSE /\ pc' = [pc EXCEPT ![p] = IF p = "bg" THEN "bg_failed" ELSE "rc_raised"]
            /\ mainPrinted' = mainPrinted

\* lines 160-165: init_default_runner up to the await of create_session
InitDefaultRunnerCall ==
    /\ session_service' = IF session_service = PyNone
                          THEN [t |-> "InMemorySessionService"]
                          ELSE session_service
    /\ createSessionCalls' = createSessionCalls + 1

\* lines 165-170: create_session completes, the Runner is built; `after` is
\* where the caller goes on
InitDefaultRunnerResume(p, after) ==
    \/ \E e \in SessionErrors :
        /\ Propagate(p, e)
        /\ UNCHANGED <<session, runner, runnerConstructions>>
    \/ \E e \in RunnerErrors :
        /\ session' = [t |-> "Session", id |-> SESSION_ID]
        /\ Propagate(p, e)
        /\ UNCHANGED <<runner, runnerConstructions>>
    \/ /\ session' = [t |-> "Session", id |-> SESSION_ID]
       /\ runnerConstructions' = runnerConstructions + 1
       /\ runner' = runnerConstructions + 1
       /\ pc' = [pc EXCEPT ![p] = after]
       /\ UNCHANGED <<exc, mainPrinted>>

turnvars == <<sent, turnRunner, fetches, finalsSeen, event, exhausted,
              final_response_text, printed, returned, completed>>

\* line 248: the task scheduled at import starts running
BgInitStart ==
    /\ pc["bg"] = "bg_scheduled"
    /\ InitDefaultRunnerCall
    /\ pc' = [pc EXCEPT !["bg"] = "bg_await_session"]
    /\ UNCHANGED <<loopRunning, entry, session, runner, runnerConstructions,
                   exc, mainPrinted, turnvars>>
    /\ UNCHANGED wvars

BgInitResume ==
    /\ pc["bg"] = "bg_await_session"
    /\ InitDefaultRunnerResume("bg", "bg_done")
    /\ UNCHANGED <<loopRunning, entry, session_service, createSessionCalls,
                   turnvars>>
    /\ UNCHANGED wvars

\* lines 272-275: main() calls init_default_runner unconditionally
MainStart ==
    /\ entry = "main"
    /\ pc["entry"] = "not_started"
    /\ InitDefaultRunnerCall
    /\ pc' = [pc EXCEPT !["entry"] = "main_await_session"]
    /\ UNCHANGED <<loopRunning, entry, session, runner, runnerConstructions,
                   exc, mainPrinted, turnvars>>
    /\ UNCHANGED wvars

MainInitResume ==
    /\ pc["entry"] = "main_await_session"
    /\ InitDefaultRunnerResume("entry", "rc_start")
    /\ UNCHANGED <<loopRunning, entry, session_service, createSessionCalls,
                   turnvars>>
    /\ UNCHANGED wvars

\* Variant of RunConversationStart: the initialization of lines 260-261
\* left out.
RunConversationStartNoInit ==
    /\ \/ pc["entry"] = "rc_start"
       \/ entry = "run_conversation" /\ pc["entry"] = "not_started"
    /\ pc' = [pc EXCEPT !["entry"] = "turn_send"]
    /\ UNCHANGED <<loopRunning, entry, session_service, session, runner,
                   createSessionCalls, runnerConstructions, exc, mainPrinted,
                   turnvars>>
    /\ UNCHANGED wvars

\* lines 258-261: run_conversation, called by main() or by the host
RunConversationStart ==
    /\ \/ pc["entry"] = "rc_start"
       \/ entry = "run_conversation" /\ pc["entry"] = "not_started"
    /\ IF runner = 0
       THEN /\ InitDefaultRunnerCall
            /\ pc' = [pc EXCEPT !["entry"] = "rc_await_session"]
       ELSE /\ pc' = [pc EXCEPT !["entry"] = "rc_check"]
            /\ UNCHANGED <<session_service, createSessionCalls>>
    /\ UNCHANGED <<loopRunning, entry, session, runner, runnerConstructions,
                   exc, mainPrinted, turnvars>>
    /\ UNCHANGED wvars

\* line 261: the initialization run_conversation awaited has completed
RcInitResume ==
    /\ pc["entry"] = "rc_await_session"
    /\ InitDefaultRunnerResume("entry", "rc_check")
    /\ UNCHANGED <<loopRunning, entry, session_service, createSessionCalls,
                   turnvars>>
    /\ UNCHANGED wvars

\* lines 263-264
RunnerCheck ==
    /\ pc["entry"] = "rc_check"
    /\ IF runner = 0
       THEN Propagate("entry", Raise("RuntimeError",
                "Failed to initialize default runner; cannot run conversation."))
       ELSE /\ pc' = [pc EXCEPT !["entry"] = "turn_send"]
            /\ UNCHANGED <<exc, mainPrinted>>
    /\ UNCHANGED <<loopRunning, entry, session_service, session, runner,
                   createSessionCalls, runnerConstructions, turnvars>>
    /\ UNCHANGED wvars

\* lines 266-268 and 106-115: the next call_agent_async starts; the message is
\* handed to runner.run_async
TurnSend ==
    /\ pc["entry"] = "turn_send"
    /\ sent' = Append(sent, Queries[completed + 1])
    /\ turnRunner' = runner
    /\ final_response_text' = InitialResponseText
    /\ fetches' = 0
    /\ finalsSeen' = 0
    /\ event' = NoEvent
    /\ exhausted' = FALSE
    /\ returned' = NotReturned
    /\ pc' = [pc EXCEPT !["entry"] = "draining"]
    /\ UNCHANGED <<loopRunning, entry, session_service, session, runner,
                   createSessionCalls, runnerConstructions, exc, printed,
                   completed, mainPrinted>>
    /\ UNCHANGED wvars

\* lines 124 and 266-278: call_agent_async prints and returns; the caller
\* goes on to the next query or finishes
TurnReturn(text) ==
    /\ printed' = ResponseLine(text)
    /\ returned' = CallAgentReturn(text)
    /\ completed' = completed + 1
    /\ pc' = [pc EXCEPT !["entry"] =
                IF completed + 1 < Len(Queries) THEN "turn_send"
                ELSE IF entry = "main" THEN "main_done" ELSE "rc_done"]

\* lines 115-122: the runtime yields an event
EventArrives ==
    /\ pc["entry"] = "draining"
    /\ fetches < MaxEvents
    /\ \E e \in Events :
        LET r == LoopBody(e, final_response_text)
        IN  /\ event' = e
            /\ fetches' = fetches + 1
            /\ finalsSeen' = finalsSeen + (IF e.final THEN 1 ELSE 0)
            /\ final_response_text' = r.text
            /\ IF r.break
               THEN TurnReturn(r.text)
               ELSE UNCHANGED <<printed, returned, completed, pc>>
    /\ UNCHANGED <<loopRunning, entry, session_service, session, runner,
                   createSessionCalls, runnerConstructions, exc, sent,
                   turnRunner, exhausted, mainPrinted>>
    /\ UNCHANGED wvars

\* line 115: the event sequence ends
EventsExhausted ==
    /\ pc["entry"] = "draining"
    /\ fetches' = fetches + 1
    /\ exhausted' = TRUE
    /\ TurnReturn(final_response_text)
    /\ UNCHANGED <<loopRunning, entry, session_service, session, runner,
                   createSessionCalls, runnerConstructions, exc, sent,
                   turnRunner, finalsSeen, event, final_response_text,
                   mainPrinted>>
    /\ UNCHANGED wvars

\* line 115: awaiting the next event raises
RunAsyncRaises ==
    /\ pc["entry"] = "draining"
    /\ fetches' = fetches + 1
    /\ \E e \in RuntimeErrors : Propagate("entry", e)
    /\ UNCHANGED <<loopRunning, entry, session_service, session, runner,
                   createSessionCalls, runnerConstructions, sent, turnRunner,
                   finalsSeen, event, exhausted, final_response_text, printed,
                   returned, completed>>
    /\ UNCHANGED wvars

-----------------------------------------------------------------------------
(* Specifications *)

WIdle ==
    /\ wpc = "idle"
    /\ city = <<>>
    /\ url = ""
    /\ urlopenCalls = 0
    /\ response = NoResponse
    /\ data = Absent
    /\ wresult = NoResult
    /\ wraised = PyNone

\* lines 149-151 and 240-253: the module has been loaded
DLoaded ==
    /\ entry \in IF loopRunning THEN {"main", "run_conversation"} ELSE {"main"}
    /\ pc = [bg |-> IF loopRunning THEN "bg_scheduled" ELSE "bg_none",
             entry |-> "not_started"]
    /\ session_service = PyNone
    /\ session = PyNone
    /\ runner = 0
    /\ createSessionCalls = 0
    /\ runnerConstructions = 0
    /\ exc = [bg |-> PyNone, entry |-> PyNone]
    /\ sent = <<>>
    /\ turnRunner = 0
    /\ fetches = 0
    /\ finalsSeen = 0
    /\ event = NoEvent
    /\ exhausted = FALSE
    /\ final_response_text = PyNone
    /\ printed = ""
    /\ returned = NotReturned
    /\ completed = 0
    /\ mainPrinted = ""

Init ==
    /\ WIdle
    /\ loopRunning \in BOOLEAN
    /\ DLoaded

Next ==
    \/ BgInitStart
    \/ BgInitResume
    \/ MainStart
    \/ MainInitResume
    \/ RunConversationStart
    \/ RcInitResume
    \/ RunnerCheck
    \/ TurnSend
    \/ EventArrives
    \/ EventsExhausted
    \/ RunAsyncRaises

Spec == Init /\ [][Next]_vars

WInit ==
    /\ WIdle
    /\ loopRunning = FALSE
    /\ DLoaded

WNext ==
    \/ GetWeatherCall
    \/ Urlopen
    \/ ParseFields
    \/ GetWeatherDone

SpecWeather == WInit /\ [][WNext]_vars

-----------------------------------------------------------------------------
(* Properties of get_weather, checked under SpecWeather *)

AllWhitespace(c) == \A i \in 1..Len(c) : c[i] \in {" ", "\t"}

\* C1: get_weather never raises for any text input: every failure path ends
\* in a returned mapping with status "error" and an error_message, and no
\* exception escapes the function.
C1_NeverRaises ==
    /\ wpc # "raised"
    /\ wraised = PyNone
    /\ (wpc = "returned" /\ response.kind = "raise")
          => (wresult.status = "error" /\ "error_message" \in DOMAIN wresult)

\* C2: for every empty or whitespace-only city get_weather returns the error
\* result with message exactly "City must be non-empty string." and urlopen
\* is not called.
C2_BlankCityRejected ==
    (wpc # "idle" /\ AllWhitespace(city))
        => /\ wpc = "returned"
           /\ wresult = [status |-> "error",
                         error_message |-> "City must be non-empty string."]
           /\ urlopenCalls = 0
           /\ response = NoResponse

C2_Witness ==
    /\ wpc = "returned"
    /\ city = <<" ", "\t">>
    /\ wresult.status = "error"

\* The first element of current_condition of a parsed body, when there is one.
HasCurrent(d) ==
    /\ d.t = "dict"
    /\ d.fields["current_condition"].t = "list"
    /\ d.fields["current_condition"].items # <<>>
    /\ Head(d.fields["current_condition"].items).t = "dict"
CurrentOf(d) == Head(d.fields["current_condition"].items).fields

HasDescValue(cur) ==
    /\ cur["weatherDesc"].t = "list"
    /\ cur["weatherDesc"].items # <<>>
    /\ Head(cur["weatherDesc"].items).t = "dict"
    /\ Head(cur["weatherDesc"].items).fields["value"] # Absent

AllFieldsPresent(d) ==
    /\ HasCurrent(d)
    /\ CurrentOf(d)["temp_C"] # Absent
    /\ CurrentOf(d)["feelslike_C"] # Absent
    /\ CurrentOf(d)["humidity"] # Absent
    /\ HasDescValue(CurrentOf(d))

Extractable(d) ==
    /\ HasCurrent(d)
    /\ \/ CurrentOf(d)["weatherDesc"] = Absent
       \/ /\ CurrentOf(d)["weatherDesc"].t = "list"
          /\ CurrentOf(d)["weatherDesc"].items # <<>>
          /\ Head(CurrentOf(d)["weatherDesc"].items).t = "dict"

ParseFailureMessages ==
    {"Error parsing weather data: " \o m \o "." :
        m \in {"list index out of range", "string index out of range", "0",
               "'NoneType' object has no attribute 'get'",
               "'str' object has no attribute 'get'",
               "'int' object has no attribute 'get'",
               "'list' object has no attribute 'get'",
               "'NoneType' object is not subscriptable",
               "'int' object is not subscriptable"}}

-----------------------------------------------------------------------------
(* Properties of the conversation driver, checked under Spec *)

\* C4: within one turn the event scan stops at the first final event: an
\* event is requested only while no final event of the turn has been
\* consumed, so at most one final event is consumed and it is the last.
C4_StopsAtFirstFinal ==
    /\ [](finalsSeen <= 1 /\ (finalsSeen = 1 => event.final))
    /\ [][fetches' > fetches => finalsSeen = 0]_vars

C4_Witness ==
    /\ finalsSeen = 1
    /\ fetches = 2
    /\ completed = 2
    /\ pc["entry"] = "turn_send"

HasParts(e) ==
    /\ e.content # PyNone
    /\ e.content.parts # PyNone
    /\ e.content.parts.items # <<>>
Escalated(e) ==
    /\ e.actions # PyNone
    /\ e.actions.escalate = Bool(TRUE)

\* C5 as stated: on the final event, non-empty content parts give the text
\* of the first part (escalation flag or not); otherwise an escalation flag
\* gives "Agent escalated: " followed by the event's error message, or by
\* "No specific message." when the error message is absent.
C5_ResolutionAsStated ==
    finalsSeen = 1 =>
        /\ HasParts(event)
              => final_response_text = Head(event.content.parts.items).text
        /\ (~HasParts(event) /\ Escalated(event))
              => final_response_text =
                    IF event.error_message = PyNone
                    THEN Text("Agent escalated: No specific message.")
                    ELSE Text("Agent escalated: " \o Join(event.error_message.chars))

\* C5 as amended: the default "No specific message." is used when the error
\* message is absent or empty.
C5_Resolution ==
    finalsSeen = 1 =>
        /\ HasParts(event)
              => final_response_text = Head(event.content.parts.items).text
        /\ (~HasParts(event) /\ Escalated(event))
              => final_response_text =
                    IF event.error_message \in {PyNone, Text("")}
                    THEN Text("Agent escalated: No specific message.")
                    ELSE Text("Agent escalated: " \o Join(event.error_message.chars))

C5_Witness ==
    /\ finalsSeen = 1
    /\ ~HasParts(event)
    /\ Escalated(event)
    /\ event.error_message = Text("")
    /\ final_response_text = Text("Agent escalated: No specific message.")
    /\ completed = 1

\* C6: if the event sequence of a turn ends without a final event, the turn
\* terminates and its result is "Agent did not produce a final response.".
C6_ExhaustedPlaceholder ==
    exhausted =>
        /\ pc["entry"] # "draining"
        /\ finalsSeen = 0
        /\ final_response_text = Text("Agent did not produce a final response.")
        /\ printed = "<<< Agent response: Agent did not produce a final response."

C6_Witness ==
    /\ exhausted
    /\ fetches = 3
    /\ HasParts(event)
    /\ completed = 1

\* C7 as stated: the value call_agent_async returns to its caller is the
\* resolved text of the turn.
C7_ReturnsText ==
    returned # NotReturned => returned = final_response_text

\* C7 as amended: call_agent_async writes the resolved text of the turn in
\* the line "<<< Agent response: <text>" and returns None to its caller.
C7_PrintsTextReturnsNone ==
    returned # NotReturned =>
        /\ returned = PyNone
        /\ final_response_text.t = "str"
        /\ printed = "<<< Agent response: " \o Join(final_response_text.chars)

C7_Witness ==
    /\ returned = PyNone
    /\ finalsSeen = 1
    /\ printed = "<<< Agent response: Sunny, 25 C"

\* C8: the session and the runner are constructed at most once per process:
\* an invocation of init_default_runner that finds the runner already set
\* does not call create_session or construct a Runner again.
C8_InitializedOnce ==
    [][runner # 0 => /\ createSessionCalls' = createSessionCalls
                     /\ runnerConstructions' = runnerConstructions]_vars

\* C9: turns are sequential and follow initialization: the queries are sent
\* in the order Nairobi, New York, London, the message of turn k+1 is sent
\* only after turn k has returned, and no message is sent while runner is
\* unset.
C9_SequentialTurns ==
    /\ sent \in {<<>>,
                 <<"What is the weather in Nairobi?">>,
                 <<"What is the weather in Nairobi?",
                   "What is the weather in New York?">>,
                 <<"What is the weather in Nairobi?",
                   "What is the weather in New York?",
                   "What is the weather in London?">>}
    /\ Len(sent) <= completed + 1
    /\ (Len(sent) = completed + 1) =>
            (pc["entry"] = "draining" \/ exc["entry"] # PyNone)
    /\ sent # <<>> => (runner # 0 /\ turnRunner # 0)

C9_Witness ==
    /\ Len(sent) = 3
    /\ completed = 2
    /\ pc["entry"] = "draining"
    /\ entry = "run_conversation"
    /\ createSessionCalls = 2

====
